---- MODULE Spec2Model ----
(***************************************************************************)
(* Model of app.py, the SDG Spine Surgery Patient Assistant: the keyword   *)
(* matcher find_relevant_info, the two prompt builders, the logging and    *)
(* model-call wrappers, and the Streamlit session script (surgery          *)
(* selection, reset, question submission).                                 *)
(*                                                                         *)
(* Text is a sequence of one-character strings, so that str.lower() and    *)
(* str.split() are computed rather than assumed.  Python's None is the     *)
(* empty tuple and a present value x is the one-element tuple <<x>>.       *)
(* Table cells are assumed to hold text (no NaN in SurgeryType, Question   *)
(* or Answer); a blank Alternate_Questions cell is NaN until load_data     *)
(* fills it.                                                               *)
(***************************************************************************)
EXTENDS Integers, Sequences, FiniteSets, TLC

None == <<>>
Some(x) == <<x>>

ToSet(s) == { s[i] : i \in 1..Len(s) }

(* ---------------- bounds ---------------- *)

\* longest dataframe handed to the matcher in SpecMatch
MaxRows == 3
\* questions submitted over the life of one process in Spec
MaxAsked == 2

(* ---------------- str.lower() and str.split() ---------------- *)

UpperChars == <<"A", "B", "C", "D", "E", "F", "G", "H", "I", "J", "K", "L", "M", "N", "O", "P", "Q", "R", "S", "T", "U", "V", "W", "X", "Y", "Z">>
LowerChars == <<"a", "b", "c", "d", "e", "f", "g", "h", "i", "j", "k", "l", "m", "n", "o", "p", "q", "r", "s", "t", "u", "v", "w", "x", "y", "z">>

Whitespace == {" ", "\t", "\n"}

\* str.lower() on one character (ASCII letters)
LowerChar(c) ==
    IF \E i \in 1..Len(UpperChars) : UpperChars[i] = c
    THEN LowerChars[CHOOSE i \in 1..Len(UpperChars) : UpperChars[i] = c]
    ELSE c

\* str.lower()
lower(s) == [i \in 1..Len(s) |-> LowerChar(s[i])]

\* str.split() with no argument: runs of whitespace separate the words and
\* leading or trailing whitespace yields no empty word
RECURSIVE splitFrom(_, _, _)
splitFrom(s, i, cur) ==
    IF i > Len(s)
    THEN IF cur = <<>> THEN <<>> ELSE <<cur>>
    ELSE IF s[i] \in Whitespace
         THEN (IF cur = <<>> THEN <<>> ELSE <<cur>>) \o splitFrom(s, i + 1, <<>>)
         ELSE splitFrom(s, i + 1, Append(cur, s[i]))

split(s) == splitFrom(s, 1, <<>>)

(* ---------------- find_relevant_info ---------------- *)

\* the stopword list with "after" added
stop_words_with_after ==
    { <<"a", "f", "t", "e", "r">>,
      <<"a">>,
      <<"a", "b", "o", "u", "t">>,
      <<"a", "n">>,
      <<"a", "r", "e">>,
      <<"a", "s">>,
      <<"a", "t">>,
      <<"b", "e">>,
      <<"b", "y">>,
      <<"f", "o", "r">>,
      <<"f", "r", "o", "m">>,
      <<"h", "o", "w">>,
      <<"i">>,
      <<"i", "n">>,
      <<"i", "s">>,
      <<"i", "t">>,
      <<"o", "f">>,
      <<"o", "n">>,
      <<"o", "r">>,
      <<"t", "h", "a", "t">>,
      <<"t", "h", "e">>,
      <<"t", "h", "i", "s">>,
      <<"t", "o">>,
      <<"w", "a", "s">>,
      <<"w", "h", "a", "t">>,
      <<"w", "h", "e", "n">>,
      <<"w", "h", "e", "r", "e">>,
      <<"w", "h", "o">>,
      <<"w", "i", "l", "l">>,
      <<"w", "i", "t", "h">>,
      <<"t", "h", "e">>,
      <<"m", "y">>,
      <<"c", "a", "n">>,
      <<"s", "h", "o", "u", "l", "d">>,
      <<"d", "o">>,
      <<"m", "e">>,
      <<"y", "o", "u", "r">> }

\* line 60
stop_words ==
    { <<"a">>,
      <<"a", "b", "o", "u", "t">>,
      <<"a", "n">>,
      <<"a", "r", "e">>,
      <<"a", "s">>,
      <<"a", "t">>,
      <<"b", "e">>,
      <<"b", "y">>,
      <<"f", "o", "r">>,
      <<"f", "r", "o", "m">>,
      <<"h", "o", "w">>,
      <<"i">>,
      <<"i", "n">>,
      <<"i", "s">>,
      <<"i", "t">>,
      <<"o", "f">>,
      <<"o", "n">>,
      <<"o", "r">>,
      <<"t", "h", "a", "t">>,
      <<"t", "h", "e">>,
      <<"t", "h", "i", "s">>,
      <<"t", "o">>,
      <<"w", "a", "s">>,
      <<"w", "h", "a", "t">>,
      <<"w", "h", "e", "n">>,
      <<"w", "h", "e", "r", "e">>,
      <<"w", "h", "o">>,
      <<"w", "i", "l", "l">>,
      <<"w", "i", "t", "h">>,
      <<"t", "h", "e">>,
      <<"m", "y">>,
      <<"c", "a", "n">>,
      <<"s", "h", "o", "u", "l", "d">>,
      <<"d", "o">>,
      <<"m", "e">>,
      <<"y", "o", "u", "r">> }

\* set(text.lower().split()) - stop_words, lines 62 and 69
keywords(text) == ToSet(split(lower(text))) \ stop_words

\* line 61: dataframe['Search_Text'] = Question + ' ' + Alternate_Questions,
\* written into the dataframe that was passed in
WithSearchText(dataframe) ==
    [i \in 1..Len(dataframe) |->
        [dataframe[i] EXCEPT !.Search_Text =
            Some(dataframe[i].Question \o <<" ">> \o dataframe[i].Alternate_Questions)]]

\* a later row replaces the best one on an equal score
IsBetterOrEqual(score, best_match_score) == score >= best_match_score

\* line 72
IsBetter(score, best_match_score) == score > best_match_score

\* lines 67-74, indices counted from 0 as in the code
RECURSIVE ScanRows(_, _, _, _)
ScanRows(dataframe, query_words, index, best) ==
    IF index >= Len(dataframe)
    THEN best
    ELSE LET row == dataframe[index + 1]
             protocol_words == ToSet(split(lower(row.Search_Text[1]))) \ stop_words
             common_words == query_words \cap protocol_words
             score == Cardinality(common_words)
         IN  ScanRows(dataframe, query_words, index + 1,
                      IF IsBetter(score, best.best_match_score)
                      THEN [best_match_score |-> score, best_match_index |-> index]
                      ELSE best)

\* one shared keyword is enough for a short question
is_match_any_overlap(num_keywords, best_match_score) ==
    \/ num_keywords <= 2 /\ best_match_score >= 1
    \/ num_keywords > 2 /\ best_match_score >= 2

\* a long question needs more than half of its keywords covered
is_match_majority(num_keywords, best_match_score) ==
    \/ num_keywords <= 2 /\ best_match_score = num_keywords
    \/ num_keywords > 2 /\ 2 * best_match_score > num_keywords

\* lines 75-77
is_match(num_keywords, best_match_score) ==
    \/ num_keywords <= 2 /\ best_match_score = num_keywords
    \/ num_keywords > 2 /\ best_match_score >= 2

\* line 80: the context text carries the row's Question and Answer
Context(relevant_row) == [Question |-> relevant_row.Question, Answer |-> relevant_row.Answer]

\* lines 59-83; ret is the returned value, dataframe the argument as the
\* call leaves it
find_relevant_info(user_question, dataframe) ==
    LET df == WithSearchText(dataframe)
        query_words == keywords(user_question)
        num_keywords == Cardinality(query_words)
        best == ScanRows(df, query_words, 0,
                         [best_match_score |-> 0, best_match_index |-> -1])
    IN  IF num_keywords = 0
        THEN [ret |-> None, dataframe |-> df]
        ELSE IF is_match(num_keywords, best.best_match_score)
             THEN [ret |-> Some(Context(df[best.best_match_index + 1])), dataframe |-> df]
             ELSE [ret |-> None, dataframe |-> df]

(* ---------------- texts used as inputs ---------------- *)

Q_ScenarioB == <<"c", "a", "n", " ", "I", " ", "s", "h", "o", "w", "e", "r", " ", "a", "f", "t", "e", "r", " ", "m", "y", " ", "s", "u", "r", "g", "e", "r", "y">>
Q_ScenarioA == <<"w", "h", "a", "t", " ", "i", "s", " ", "a", " ", "d", "i", "s", "c", "e", "c", "t", "o", "m", "y">>
Q_AllStop == <<"W", "h", "a", "t", " ", "i", "s", " ", "t", "h", "e">>
Q_Empty == <<>>
Q_Blank == <<" ", "\t">>
Q_One == <<"s", "h", "o", "w", "e", "r">>
Q_Two == <<"S", "h", "o", "w", "e", "r", " ", " ", "S", "U", "R", "G", "E", "R", "Y">>
Q_Three == <<"w", "h", "e", "n", " ", "c", "a", "n", " ", "I", " ", "d", "r", "i", "v", "e", " ", "a", "f", "t", "e", "r", " ", "s", "u", "r", "g", "e", "r", "y">>
Q_Five == <<"s", "h", "o", "w", "e", "r", " ", "d", "r", "i", "v", "e", " ", "p", "a", "i", "n", " ", "s", "u", "r", "g", "e", "r", "y", " ", "b", "r", "a", "c", "e">>
Q_Punct == <<"c", "a", "n", " ", "I", " ", "s", "h", "o", "w", "e", "r", "?">>
W_shower == <<"s", "h", "o", "w", "e", "r">>
W_after == <<"a", "f", "t", "e", "r">>
W_surgery == <<"s", "u", "r", "g", "e", "r", "y">>
E_ShowerQ == <<"C", "a", "n", " ", "I", " ", "s", "h", "o", "w", "e", "r", " ", "a", "f", "t", "e", "r", " ", "s", "u", "r", "g", "e", "r", "y">>
E_BathQ == <<"W", "h", "e", "n", " ", "c", "a", "n", " ", "I", " ", "s", "h", "o", "w", "e", "r">>
E_BathAlt == <<"b", "a", "t", "h", "i", "n", "g", " ", "w", "o", "u", "n", "d">>
E_DiscQ == <<"W", "h", "a", "t", " ", "i", "s", " ", "a", " ", "d", "i", "s", "c", "e", "c", "t", "o", "m", "y">>
E_DriveQ == <<"D", "r", "i", "v", "i", "n", "g", " ", "a", "f", "t", "e", "r", " ", "s", "u", "r", "g", "e", "r", "y">>
E_DriveAlt == <<"d", "r", "i", "v", "e", " ", "c", "a", "r">>
E_AfterQ == <<"s", "h", "o", "w", "e", "r", " ", "a", "f", "t", "e", "r", " ", "b", "a", "t", "h">>
E_PainQ == <<"P", "a", "i", "n">>
E_PainAlt == <<"b", "r", "a", "c", "e", " ", "p", "a", "i", "n">>

(* ---------------- the protocol table ---------------- *)

\* a row of the dataframe; Search_Text is None until line 61 adds the column
Row(st, q, alt, ans) ==
    [SurgeryType |-> st, Question |-> q, Alternate_Questions |-> alt,
     Answer |-> ans, Search_Text |-> None]

R_Shower == Row("acdf", E_ShowerQ, <<>>, "A_shower")
R_Bath == Row("acdf", E_BathQ, E_BathAlt, "A_bath")
R_Disc == Row("lumbar", E_DiscQ, <<>>, "A_disc")
R_Drive == Row("lumbar", E_DriveQ, E_DriveAlt, "A_drive")
R_After == Row("acdf", E_AfterQ, <<>>, "A_after")
R_Pain == Row("lumbar", E_PainQ, E_PainAlt, "A_pain")

RowPool == {R_Shower, R_Bath, R_Disc, R_Drive, R_After, R_Pain}

RECURSIVE SeqsUpTo(_, _)
SeqsUpTo(S, n) ==
    IF n = 0 THEN {<<>>}
    ELSE LET shorter == SeqsUpTo(S, n - 1)
         IN  shorter \cup { Append(t, x) : t \in { u \in shorter : Len(u) = n - 1 }, x \in S }

MatchQuestions ==
    {Q_ScenarioB, Q_ScenarioA, Q_AllStop, Q_Empty, Q_Blank, Q_One, Q_Two,
     Q_Three, Q_Five, Q_Punct}

MatchDataFrames == SeqsUpTo(RowPool, MaxRows)

(* ---------------- state ---------------- *)

VARIABLES
    m_question,          \* find_relevant_info's user_question argument
    m_dataframe,         \* its dataframe argument
    m_ret,               \* its returned value
    m_pc,                \* "call" before the call, "returned" after it
    csv_file,            \* combined_protocols.csv as found at startup
    GROQ_API_AVAILABLE,  \* lines 20-25
    GSHEETS_AVAILABLE,   \* lines 28-43
    master_df,           \* line 56
    surgery_type,        \* st.session_state.surgery_type
    session_df,          \* st.session_state.session_df, None until first set
    messages,            \* st.session_state.messages
    log_sheet,           \* rows of the sheet SDG_Chatbot_Log written so far
    api_calls,           \* prompts passed to client.chat.completions.create
    now,                 \* datetime.datetime.now(), one tick per question
    shown,               \* st.error / st.info / st.warning / st.success of the latest script run
    last_action,         \* the interaction the latest script run served
    prompt,              \* the question of the latest submission
    final_prompt,        \* the prompt built by the latest submission
    trace                \* the calls made by the latest submission, in order

match_vars == <<m_question, m_dataframe, m_ret, m_pc>>
session_vars ==
    <<csv_file, GROQ_API_AVAILABLE, GSHEETS_AVAILABLE, master_df, surgery_type,
      session_df, messages, log_sheet, api_calls, now, shown, last_action,
      prompt, final_prompt, trace>>
vars == <<match_vars, session_vars>>

(* ---------------- startup ---------------- *)

\* a line of the CSV file; a blank Alternate_Questions cell is read as NaN
CsvRow(st, q, alt, ans) ==
    [SurgeryType |-> st, Question |-> q, Alternate_Questions |-> alt, Answer |-> ans]

\* line 50: fillna('') on Alternate_Questions
FillNa(rows) ==
    [i \in 1..Len(rows) |->
        Row(rows[i].SurgeryType, rows[i].Question,
            IF rows[i].Alternate_Questions = None THEN <<>> ELSE rows[i].Alternate_Questions[1],
            rows[i].Answer)]

\* a missing file yields an empty table and no message
load_data_silent(file) ==
    IF file.status = "ok"
    THEN [raised |-> FALSE, value |-> Some(FillNa(file.rows)), errors |-> {}]
    ELSE IF file.status = "missing"
         THEN [raised |-> FALSE, value |-> Some(<<>>), errors |-> {}]
         ELSE [raised |-> TRUE, value |-> None, errors |-> {}]

\* lines 47-54: only FileNotFoundError is caught; any other failure of
\* read_csv leaves load_data as an exception
load_data(file) ==
    IF file.status = "ok"
    THEN [raised |-> FALSE, value |-> Some(FillNa(file.rows)), errors |-> {}]
    ELSE IF file.status = "missing"
         THEN [raised |-> FALSE, value |-> None, errors |-> {"protocol_file_not_found"}]
         ELSE [raised |-> TRUE, value |-> None, errors |-> {}]

\* what one run of the script shows before it reaches the chat input:
\* lines 24, 42, 53 (replayed from the cache), an exception out of line 56
\* ends the run; otherwise lines 121, 132 or 141
PageBanners(file, groq, gsheets, stype) ==
    (IF groq THEN {} ELSE {"groq_error"})
    \cup (IF gsheets THEN {} ELSE {"gsheets_error"})
    \cup load_data(file).errors
    \cup (IF load_data(file).raised
          THEN {"uncaught_exception"}
          ELSE IF stype = None
               THEN {"welcome"} \cup
                    (IF load_data(file).value = None THEN {"cannot_continue"} ELSE {})
               ELSE {"protocol_loaded"})

ErrorBanners ==
    {"groq_error", "gsheets_error", "protocol_file_not_found", "uncaught_exception",
     "cannot_continue"}

C_Shower == CsvRow("acdf", E_ShowerQ, None, "A_shower")
C_Bath == CsvRow("acdf", E_BathQ, Some(E_BathAlt), "A_bath")
C_Disc == CsvRow("lumbar", E_DiscQ, None, "A_disc")
C_Drive == CsvRow("lumbar", E_DriveQ, Some(E_DriveAlt), "A_drive")
C_After == CsvRow("acdf", E_AfterQ, None, "A_after")
C_Pain == CsvRow("lumbar", E_PainQ, Some(E_PainAlt), "A_pain")

CsvFiles ==
    { [status |-> "missing", rows |-> <<>>],
      [status |-> "malformed", rows |-> <<>>],
      [status |-> "ok", rows |-> <<>>],
      [status |-> "ok", rows |-> <<C_After, C_Disc, C_Shower, C_Drive, C_Bath>>],
      [status |-> "ok", rows |-> <<C_Drive, C_Bath, C_Pain, C_After>>] }

SessionQuestions == {Q_ScenarioB, Q_AllStop, Q_Five}

ModelAnswer == <<"completion">>
ModelUnavailable == <<"The AI model is currently unavailable.">>
ModelError == <<"An error occurred while contacting the AI model: ", "e">>

(* ---------------- prompts, logging, model call ---------------- *)

\* line 86
create_protocol_prompt(user_question, context) ==
    [template |-> "protocol", question |-> user_question, context |-> Some(context)]

\* line 89
create_general_prompt(user_question) ==
    [template |-> "general", question |-> user_question, context |-> None]

\* the protocol template is used whether or not there is a context
final_prompt_blended(user_question, protocol_context) ==
    [template |-> "protocol", question |-> user_question, context |-> protocol_context]

\* lines 156-161, the prompt chosen
final_prompt_for(user_question, protocol_context) ==
    IF protocol_context # None
    THEN create_protocol_prompt(user_question, protocol_context[1])
    ELSE create_general_prompt(user_question)

\* line 94
strftime(t) == [format |-> "%Y-%m-%d %H:%M:%S", time |-> t]

\* the question is appended also when it was appended already by a retry
log_unanswered_question_twice(user_question, stype, gsheets, sheet, t, append_ok) ==
    IF ~gsheets
    THEN [raised |-> FALSE, log_sheet |-> sheet, shown |-> {}, calls |-> <<>>]
    ELSE IF append_ok
         THEN [raised |-> FALSE,
               log_sheet |-> sheet \o << <<strftime(t), stype, user_question>>,
                                         <<strftime(t), stype, user_question>> >>,
               shown |-> {"logged_for_review"},
               calls |-> <<"append_row:ok", "append_row:ok">>]
         ELSE [raised |-> FALSE, log_sheet |-> sheet, shown |-> {"log_warning"},
               calls |-> <<"append_row:raised">>]

\* lines 91-98; append_ok is whether append_row returns or raises
log_unanswered_question(user_question, stype, gsheets, sheet, t, append_ok) ==
    IF ~gsheets
    THEN [raised |-> FALSE, log_sheet |-> sheet, shown |-> {}, calls |-> <<>>]
    ELSE IF append_ok
         THEN [raised |-> FALSE,
               log_sheet |-> Append(sheet, <<strftime(t), stype, user_question>>),
               shown |-> {"logged_for_review"},
               calls |-> <<"append_row:ok">>]
         ELSE [raised |-> FALSE, log_sheet |-> sheet, shown |-> {"log_warning"},
               calls |-> <<"append_row:raised">>]

\* the exception of a failed call is not caught
get_model_response_uncaught(prompt_text, groq, calls_so_far, create_ok) ==
    IF ~groq
    THEN [raised |-> FALSE, response |-> ModelUnavailable, api_calls |-> calls_so_far,
          calls |-> <<"model:unavailable">>]
    ELSE IF create_ok
         THEN [raised |-> FALSE, response |-> ModelAnswer,
               api_calls |-> Append(calls_so_far, prompt_text), calls |-> <<"create:ok">>]
         ELSE [raised |-> TRUE, response |-> ModelError,
               api_calls |-> Append(calls_so_far, prompt_text), calls |-> <<"create:raised">>]

\* lines 100-109; create_ok is whether the completion call returns or raises
get_model_response(prompt_text, groq, calls_so_far, create_ok) ==
    IF ~groq
    THEN [raised |-> FALSE, response |-> ModelUnavailable, api_calls |-> calls_so_far,
          calls |-> <<"model:unavailable">>]
    ELSE IF create_ok
         THEN [raised |-> FALSE, response |-> ModelAnswer,
               api_calls |-> Append(calls_so_far, prompt_text), calls |-> <<"create:ok">>]
         ELSE [raised |-> FALSE, response |-> ModelError,
               api_calls |-> Append(calls_so_far, prompt_text), calls |-> <<"create:raised">>]

(* ---------------- the session script ---------------- *)

\* line 124
surgery_options(df) == { df[i].SurgeryType : i \in 1..Len(df) }

\* line 129: the rows of the selected surgery, in the table's order
RowsOf(df, selected_surgery) == SelectSeq(df, LAMBDA row : row.SurgeryType = selected_surgery)

MatchIdle ==
    /\ m_question = Q_Empty
    /\ m_dataframe = <<>>
    /\ m_ret = None
    /\ m_pc = "idle"

\* the state after the first run of the script in a new session
Init ==
    /\ MatchIdle
    /\ csv_file \in CsvFiles
    /\ GROQ_API_AVAILABLE \in BOOLEAN
    /\ GSHEETS_AVAILABLE \in BOOLEAN
    /\ master_df = load_data(csv_file).value
    /\ surgery_type = None
    /\ session_df = None
    /\ messages = <<>>
    /\ log_sheet = <<>>
    /\ api_calls = <<>>
    /\ now = 0
    /\ shown = PageBanners(csv_file, GROQ_API_AVAILABLE, GSHEETS_AVAILABLE, None)
    /\ last_action = "start"
    /\ prompt = None
    /\ final_prompt = None
    /\ trace = <<>>

\* the session's table is kept when one is already there
SelectSurgeryKeepStale(selected_surgery) ==
    /\ ~ load_data(csv_file).raised
    /\ surgery_type = None
    /\ master_df # None
    /\ selected_surgery \in surgery_options(master_df[1])
    /\ surgery_type' = Some(selected_surgery)
    /\ session_df' = IF session_df = None
                     THEN Some(RowsOf(master_df[1], selected_surgery))
                     ELSE session_df
    /\ shown' = PageBanners(csv_file, GROQ_API_AVAILABLE, GSHEETS_AVAILABLE, surgery_type')
    /\ last_action' = "select"
    /\ UNCHANGED <<match_vars, csv_file, GROQ_API_AVAILABLE, GSHEETS_AVAILABLE, master_df,
                   messages, log_sheet, api_calls, now, prompt, final_prompt, trace>>

\* lines 120-130 and the run that st.rerun() starts
SelectSurgery(selected_surgery) ==
    /\ ~ load_data(csv_file).raised
    /\ surgery_type = None
    /\ master_df # None
    /\ selected_surgery \in surgery_options(master_df[1])
    /\ surgery_type' = Some(selected_surgery)
    /\ session_df' = Some(RowsOf(master_df[1], selected_surgery))
    /\ shown' = PageBanners(csv_file, GROQ_API_AVAILABLE, GSHEETS_AVAILABLE, surgery_type')
    /\ last_action' = "select"
    /\ UNCHANGED <<match_vars, csv_file, GROQ_API_AVAILABLE, GSHEETS_AVAILABLE, master_df,
                   messages, log_sheet, api_calls, now, prompt, final_prompt, trace>>

\* the history survives the reset
ResetKeepHistory ==
    /\ ~ load_data(csv_file).raised
    /\ surgery_type # None
    /\ surgery_type' = None
    /\ shown' = PageBanners(csv_file, GROQ_API_AVAILABLE, GSHEETS_AVAILABLE, None)
    /\ last_action' = "reset"
    /\ UNCHANGED <<match_vars, csv_file, GROQ_API_AVAILABLE, GSHEETS_AVAILABLE, master_df,
                   session_df, messages, log_sheet, api_calls, now, prompt, final_prompt, trace>>

\* lines 136-139 and the run that st.rerun() starts
Reset ==
    /\ ~ load_data(csv_file).raised
    /\ surgery_type # None
    /\ surgery_type' = None
    /\ messages' = <<>>
    /\ shown' = PageBanners(csv_file, GROQ_API_AVAILABLE, GSHEETS_AVAILABLE, None)
    /\ last_action' = "reset"
    /\ UNCHANGED <<match_vars, csv_file, GROQ_API_AVAILABLE, GSHEETS_AVAILABLE, master_df,
                   session_df, log_sheet, api_calls, now, prompt, final_prompt, trace>>

\* lines 147-166: one submitted question.  An exception that leaves
\* log_unanswered_question or get_model_response ends the run before the
\* later lines.
SubmitQuestion(user_prompt, append_ok, create_ok) ==
    /\ ~ load_data(csv_file).raised
    /\ surgery_type # None
    /\ user_prompt # <<>>
    /\ now < MaxAsked
    /\ LET found == find_relevant_info(user_prompt, session_df[1])
           protocol_context == found.ret
           logged == IF protocol_context # None
                     THEN [raised |-> FALSE, log_sheet |-> log_sheet, shown |-> {},
                           calls |-> <<>>]
                     ELSE log_unanswered_question(user_prompt, surgery_type[1],
                                                  GSHEETS_AVAILABLE, log_sheet, now + 1,
                                                  append_ok)
           built == final_prompt_for(user_prompt, protocol_context)
           answered == get_model_response(built, GROQ_API_AVAILABLE, api_calls, create_ok)
           with_user == Append(messages, [role |-> "user", content |-> user_prompt])
           matched_call == IF protocol_context # None
                           THEN "find_relevant_info:match"
                           ELSE "find_relevant_info:none"
           prompt_call == IF built.template = "protocol"
                          THEN "create_protocol_prompt"
                          ELSE "create_general_prompt"
       IN  /\ session_df' = Some(found.dataframe)
           /\ log_sheet' = logged.log_sheet
           /\ prompt' = Some(user_prompt)
           /\ IF logged.raised
              THEN /\ messages' = with_user
                   /\ final_prompt' = None
                   /\ api_calls' = api_calls
                   /\ trace' = <<"append_user", matched_call>> \o logged.calls
                   /\ shown' = PageBanners(csv_file, GROQ_API_AVAILABLE, GSHEETS_AVAILABLE,
                                           surgery_type) \cup {"uncaught_exception"}
              ELSE /\ final_prompt' = Some(built)
                   /\ api_calls' = answered.api_calls
                   /\ IF answered.raised
                      THEN /\ messages' = with_user
                           /\ trace' = <<"append_user", matched_call>> \o logged.calls
                                           \o <<prompt_call>> \o answered.calls
                           /\ shown' = PageBanners(csv_file, GROQ_API_AVAILABLE,
                                                   GSHEETS_AVAILABLE, surgery_type)
                                           \cup logged.shown \cup {"uncaught_exception"}
                      ELSE /\ messages' = Append(with_user, [role |-> "assistant",
                                                              content |-> answered.response])
                           /\ trace' = <<"append_user", matched_call>> \o logged.calls
                                           \o <<prompt_call>> \o answered.calls
                                           \o <<"append_assistant">>
                           /\ shown' = PageBanners(csv_file, GROQ_API_AVAILABLE,
                                                   GSHEETS_AVAILABLE, surgery_type)
                                           \cup logged.shown
    /\ now' = now + 1
    /\ last_action' = "submit"
    /\ UNCHANGED <<match_vars, csv_file, GROQ_API_AVAILABLE, GSHEETS_AVAILABLE, master_df,
                   surgery_type>>

Next ==
    \/ \E selected_surgery \in {"acdf", "lumbar"} : SelectSurgery(selected_surgery)
    \/ Reset
    \/ \E user_prompt \in SessionQuestions, append_ok \in BOOLEAN, create_ok \in BOOLEAN :
           SubmitQuestion(user_prompt, append_ok, create_ok)

Spec == Init /\ [][Next]_vars

(* ---------------- find_relevant_info applied to drawn inputs ---------------- *)

\* the session variables while only the matcher runs: a new session
SessionIdle ==
    /\ csv_file = [status |-> "missing", rows |-> <<>>]
    /\ GROQ_API_AVAILABLE = TRUE
    /\ GSHEETS_AVAILABLE = TRUE
    /\ master_df = load_data(csv_file).value
    /\ surgery_type = None
    /\ session_df = None
    /\ messages = <<>>
    /\ log_sheet = <<>>
    /\ api_calls = <<>>
    /\ now = 0
    /\ shown = PageBanners(csv_file, TRUE, TRUE, None)
    /\ last_action = "start"
    /\ prompt = None
    /\ final_prompt = None
    /\ trace = <<>>

InitMatch ==
    /\ m_question \in MatchQuestions
    /\ m_dataframe \in MatchDataFrames
    /\ m_ret = None
    /\ m_pc = "call"
    /\ SessionIdle

CallFindRelevantInfo ==
    /\ m_pc = "call"
    /\ LET r == find_relevant_info(m_question, m_dataframe)
       IN  /\ m_ret' = r.ret
           /\ m_dataframe' = r.dataframe
    /\ m_pc' = "returned"
    /\ UNCHANGED <<m_question, session_vars>>

NextMatch == CallFindRelevantInfo

SpecMatch == InitMatch /\ [][NextMatch]_vars

(* ---------------- properties of find_relevant_info ---------------- *)

\* the keyword set of an entry, from Question + ' ' + Alternate_Questions
EntryKeywords(row) == keywords(row.Question \o <<" ">> \o row.Alternate_Questions)

Overlap(question, row) == Cardinality(keywords(question) \cap EntryKeywords(row))

Returned == m_pc = "returned"
Matched == m_ret # None

\* C1: a question with at most 2 keywords is matched iff its keyword set is
\* non-empty and some entry's keyword set contains all of it; a question
\* with no keyword is never matched.
C1_FullCoverage ==
    (Returned /\ Cardinality(keywords(m_question)) <= 2) =>
        (Matched <=>
            /\ keywords(m_question) # {}
            /\ \E i \in 1..Len(m_dataframe) :
                   keywords(m_question) \subseteq EntryKeywords(m_dataframe[i]))

C1_Witness ==
    /\ Returned /\ Matched
    /\ Cardinality(keywords(m_question)) = 2
    /\ Len(m_dataframe) = 2
    /\ ~ (keywords(m_question) \subseteq EntryKeywords(m_dataframe[1]))
    /\ Overlap(m_question, m_dataframe[1]) = 1

\* C2: a question with more than 2 keywords is matched iff some entry shares
\* at least 2 keywords with it, however many keywords the question has.
C2_AtLeastTwo ==
    (Returned /\ Cardinality(keywords(m_question)) > 2) =>
        (Matched <=> \E i \in 1..Len(m_dataframe) : Overlap(m_question, m_dataframe[i]) >= 2)

C2_Witness ==
    /\ Returned /\ Matched
    /\ Cardinality(keywords(m_question)) = 5
    /\ \A i \in 1..Len(m_dataframe) : Overlap(m_question, m_dataframe[i]) <= 2

MaxOverlap(question, df) ==
    CHOOSE n \in 0..Cardinality(keywords(question)) :
        /\ \A i \in 1..Len(df) : Overlap(question, df[i]) <= n
        /\ n > 0 => \E i \in 1..Len(df) : Overlap(question, df[i]) = n

FirstBest(question, df) ==
    CHOOSE i \in 1..Len(df) :
        /\ Overlap(question, df[i]) = MaxOverlap(question, df)
        /\ \A j \in 1..(i - 1) : Overlap(question, df[j]) < MaxOverlap(question, df)

\* C3: an accepted match returns the Question and Answer of the entry with
\* the maximum overlap, and among entries with that maximum the one at the
\* smallest position.
C3_EarliestBest ==
    (Returned /\ Matched) =>
        m_ret[1] = Context(m_dataframe[FirstBest(m_question, m_dataframe)])

C3_Witness ==
    /\ Returned /\ Matched
    /\ \E i, j \in 1..Len(m_dataframe) :
           /\ i < j
           /\ Overlap(m_question, m_dataframe[i]) = MaxOverlap(m_question, m_dataframe)
           /\ Overlap(m_question, m_dataframe[j]) = MaxOverlap(m_question, m_dataframe)
           /\ Context(m_dataframe[i]) # Context(m_dataframe[j])

\* C4 as stated: "can I shower after my surgery" has the keyword set
\* {shower, surgery} and is matched only by an entry with both words.
C4_AsStated ==
    (Returned /\ m_question = Q_ScenarioB) =>
        /\ keywords(m_question) = {W_shower, W_surgery}
        /\ Matched <=> \E i \in 1..Len(m_dataframe) :
               {W_shower, W_surgery} \subseteq EntryKeywords(m_dataframe[i])

\* C4: "can I shower after my surgery" keeps "after": its keyword set is
\* {shower, after, surgery}, it is matched iff some entry shares at least 2
\* of the three, and an entry sharing only "shower" does not match it.
C4_ScenarioB ==
    (Returned /\ m_question = Q_ScenarioB) =>
        /\ keywords(m_question) = {W_shower, W_after, W_surgery}
        /\ Matched <=> \E i \in 1..Len(m_dataframe) :
               Cardinality({W_shower, W_after, W_surgery} \cap EntryKeywords(m_dataframe[i])) >= 2

C4_Witness ==
    /\ Returned /\ m_question = Q_ScenarioB /\ Matched
    /\ Len(m_dataframe) = 1
    /\ W_shower \in EntryKeywords(m_dataframe[1])
    /\ W_surgery \notin EntryKeywords(m_dataframe[1])

(* ---------------- properties of the session ---------------- *)

Submitted == last_action = "submit"

\* the acceptance policy stated on keyword sets
Accepts(question, df) ==
    IF Cardinality(keywords(question)) <= 2
    THEN /\ keywords(question) # {}
         /\ \E i \in 1..Len(df) : keywords(question) \subseteq EntryKeywords(df[i])
    ELSE \E i \in 1..Len(df) : Overlap(question, df[i]) >= 2

\* sub is exactly the rows of df with surgery type st, in df's order
IsRestriction(sub, df, st) ==
    LET idx == { i \in 1..Len(df) : df[i].SurgeryType = st }
    IN  /\ Len(sub) = Cardinality(idx)
        /\ \A k \in 1..Len(sub) :
               sub[k] = df[CHOOSE i \in idx : Cardinality({ j \in idx : j < i }) = k - 1]

\* a row without the derived Search_Text column
Base(row) == [row EXCEPT !.Search_Text = None]
BaseRows(df) == [i \in 1..Len(df) |-> Base(df[i])]

Count(tr, S) == Cardinality({ i \in 1..Len(tr) : tr[i] \in S })
Before(tr, A, B) == \A i, j \in 1..Len(tr) : (tr[i] \in A /\ tr[j] \in B) => i < j

PromptCalls == {"create_protocol_prompt", "create_general_prompt"}
AppendCalls == {"append_row:ok", "append_row:raised"}
CreateCalls == {"create:ok", "create:raised"}

\* the prompt the latest submission has to build
ExpectedPrompt ==
    LET df == BaseRows(session_df[1])
    IN  IF Accepts(prompt[1], df)
        THEN [template |-> "protocol", question |-> prompt[1],
              context |-> Some(Context(df[FirstBest(prompt[1], df)]))]
        ELSE [template |-> "general", question |-> prompt[1], context |-> None]

OnePromptBuilt ==
    /\ final_prompt = Some(ExpectedPrompt)
    /\ Count(trace, PromptCalls) = 1

\* C5 as stated: every submission sends exactly one prompt to the model.
C5_AsStated ==
    Submitted =>
        /\ OnePromptBuilt
        /\ Count(trace, CreateCalls) = 1
        /\ Len(api_calls) = now
        /\ api_calls[Len(api_calls)] = ExpectedPrompt

\* C5: every submission builds exactly one prompt, the protocol prompt with
\* the matched entry's question and answer iff the matcher accepts and the
\* general prompt without context iff it does not; that prompt is sent to
\* the model once when the Groq client was created at startup and not at all
\* otherwise.
C5_OnePrompt ==
    Submitted =>
        /\ OnePromptBuilt
        /\ GROQ_API_AVAILABLE =>
               /\ Count(trace, CreateCalls) = 1
               /\ Len(api_calls) = now
               /\ api_calls[Len(api_calls)] = ExpectedPrompt
        /\ ~ GROQ_API_AVAILABLE =>
               /\ Count(trace, CreateCalls) = 0
               /\ api_calls = <<>>

C5_Witness ==
    /\ Submitted
    /\ Len(api_calls) = 2
    /\ api_calls[1].template = "general"
    /\ api_calls[2].template = "protocol"
    /\ api_calls[2].context # None

\* C6 as stated: every unmatched question is sent to the logging sink.
C6_AsStated ==
    (Submitted /\ ~ Accepts(prompt[1], BaseRows(session_df[1]))) =>
        /\ Count(trace, AppendCalls) = 1
        /\ Before(trace, AppendCalls, PromptCalls)

\* C6: when the sheet was opened at startup, every unmatched question is
\* handed to append_row exactly once, as (timestamp, current surgery type,
\* question), before the general prompt is built; when it was not opened
\* nothing is appended; a matched question is never appended.
C6_Logged ==
    Submitted =>
        LET matched == Accepts(prompt[1], BaseRows(session_df[1]))
            row == <<strftime(now), surgery_type[1], prompt[1]>>
            written == { i \in 1..Len(log_sheet) : log_sheet[i][1] = strftime(now) }
        IN  /\ matched => (Count(trace, AppendCalls) = 0 /\ written = {})
            /\ (~ matched /\ GSHEETS_AVAILABLE) =>
                   /\ Count(trace, AppendCalls) = 1
                   /\ Before(trace, AppendCalls, {"create_general_prompt"})
                   /\ "append_row:ok" \in ToSet(trace) =>
                          (written = {Len(log_sheet)} /\ log_sheet[Len(log_sheet)] = row)
                   /\ "append_row:raised" \in ToSet(trace) => written = {}
            /\ ~ GSHEETS_AVAILABLE => (Count(trace, AppendCalls) = 0 /\ log_sheet = <<>>)

C6_Witness ==
    /\ Submitted
    /\ ~ Accepts(prompt[1], BaseRows(session_df[1]))
    /\ "append_row:ok" \in ToSet(trace)
    /\ Len(log_sheet) = 2
    /\ log_sheet[1][2] # log_sheet[2][2]

\* C7: every submission appends exactly the user question and then one
\* assistant answer to messages, also when append_row or the completion call
\* raises; a failed append_row is followed by the model call, a failed
\* completion call is recorded as the error text, and the surgery type
\* stays set so that the next question is accepted.
C7_TwoMessages ==
    [][ now' # now =>
          /\ Len(messages') = Len(messages) + 2
          /\ SubSeq(messages', 1, Len(messages)) = messages
          /\ messages'[Len(messages) + 1] = [role |-> "user", content |-> prompt'[1]]
          /\ messages'[Len(messages) + 2].role = "assistant"
          /\ "append_row:raised" \in ToSet(trace') =>
                 Count(trace', CreateCalls \cup {"model:unavailable"}) = 1
          /\ "create:raised" \in ToSet(trace') =>
                 messages'[Len(messages) + 2].content = ModelError
          /\ "create:ok" \in ToSet(trace') =>
                 messages'[Len(messages) + 2].content = ModelAnswer
          /\ surgery_type' = surgery_type
          /\ surgery_type' # None
          /\ "uncaught_exception" \notin shown' ]_vars

C7_Witness ==
    /\ Submitted
    /\ Len(messages) = 4
    /\ messages[2].content = ModelError
    /\ "append_row:raised" \in ToSet(trace)
    /\ "create:raised" \in ToSet(trace)
    /\ messages[4].content = ModelError

\* C8: whenever a surgery type is selected, the session's table is exactly
\* the rows of the protocol table with that surgery type, in load order.
C8_ActiveSubset ==
    surgery_type # None =>
        /\ session_df # None
        /\ IsRestriction(BaseRows(session_df[1]), master_df[1], surgery_type[1])

C8_Witness ==
    /\ Submitted
    /\ Len(session_df[1]) >= 2
    /\ \E i \in 1..Len(log_sheet) : log_sheet[i][2] # surgery_type[1]
    /\ \E i \in 1..Len(master_df[1]) : master_df[1][i].SurgeryType # surgery_type[1]

\* C9: a reset leaves surgery_type unset and messages empty, and a question
\* is processed only while surgery_type is set.
C9_Reset ==
    /\ [](last_action = "reset" => (surgery_type = None /\ messages = <<>>))
    /\ [](surgery_type = None => messages = <<>>)
    /\ [][now' # now => (surgery_type # None /\ surgery_type' # None)]_vars

C9_Witness ==
    /\ last_action = "reset"
    /\ now > 0
    /\ session_df # None

StartupFailed ==
    \/ csv_file.status # "ok"
    \/ ~ GROQ_API_AVAILABLE
    \/ ~ GSHEETS_AVAILABLE

NothingProceeds ==
    /\ surgery_type = None
    /\ messages = <<>>
    /\ api_calls = <<>>
    /\ now = 0

\* C10 as stated: after any startup failure an error is shown and nothing
\* proceeds.
C10_AsStated ==
    StartupFailed => (shown \cap ErrorBanners # {} /\ NothingProceeds)

\* C10: a missing or unparseable protocol file shows an error and nothing
\* proceeds: no surgery type is selected and no question is matched, sent or
\* answered.  A missing Groq key or a failed sheet connection shows an
\* error and the session proceeds: without the Groq client no prompt is sent
\* and every answer is the fixed unavailable text, without the sheet
\* nothing is logged.
C10_Startup ==
    /\ csv_file.status # "ok" =>
           /\ shown \cap {"protocol_file_not_found", "uncaught_exception"} # {}
           /\ NothingProceeds
    /\ ~ GROQ_API_AVAILABLE =>
           /\ "groq_error" \in shown
           /\ api_calls = <<>>
           /\ \A i \in 1..Len(messages) :
                  messages[i].role = "assistant" => messages[i].content = ModelUnavailable
    /\ ~ GSHEETS_AVAILABLE =>
           /\ "gsheets_error" \in shown
           /\ log_sheet = <<>>

C10_Witness ==
    /\ ~ GROQ_API_AVAILABLE
    /\ ~ GSHEETS_AVAILABLE
    /\ Len(messages) = 2
    /\ messages[2].content = ModelUnavailable

====
